---- MODULE Spec2Model ----
(***************************************************************************)
(* Shortest-path engine of the graph visualizer                            *)
(* (src/client/lib/graphAlgorithms.ts): GraphAlgorithms.dijkstra and       *)
(* GraphAlgorithms.bellmanFord as state machines that emit the step trace, *)
(* driven by a caller that runs them on one graph.                         *)
(*                                                                         *)
(* Node ids are opaque to the code (it only tests them for equality and    *)
(* truthiness), so the node list is a prefix of NodeOrder; the input panel *)
(* never produces an empty id.  The `message` string of a step is derived  *)
(* from the other fields and is not modelled.                              *)
(***************************************************************************)
EXTENDS Integers, Sequences, FiniteSets, TLC

\* ---------------------------------------------------------------- bounds
\* longest edge list
MaxEdges == 2

NodeOrder == <<"A", "B", "C">>
\* a source id that is in no node list (the node was removed after selection)
AbsentId == "Z"
Weights == {-1, 0, 1}
\* the caller runs both algorithms, one after the other, on the same graph
CallOrder == <<"dijkstra", "bellmanFord">>
\* the caller runs each algorithm twice on the same graph
RerunOrder == <<"dijkstra", "dijkstra", "bellmanFord", "bellmanFord">>

\* ------------------------------------------------------------ JS values
\* JavaScript null (previous[n] of a node never relaxed)
Null == "null"
\* JavaScript Infinity: larger than every finite distance of the model
Infinity == 1000
\* JavaScript NaN: what undefined becomes in arithmetic and comparisons
NaN == 2000
\* variant: Infinity treated as an ordinary large number
AddFinite(a, w) == a + w
\* Infinity + w is Infinity, undefined + w is NaN
Add(a, w) == IF a = Infinity \/ a = NaN THEN a ELSE a + w
\* variant: <= instead of <
LessOrEqual(a, b) == a # NaN /\ b # NaN /\ a <= b
\* a < b: false as soon as one side is undefined or NaN
Less(a, b) == a # NaN /\ b # NaN /\ a < b
\* distances[n]: undefined for an id that is no key of the map
Get(d, n) == IF n \in DOMAIN d THEN d[n] ELSE NaN
\* !x for a string-or-null x
Falsy(x) == x = Null \/ x = ""

Range(s) == {s[j] : j \in DOMAIN s}
SeqsUpTo(S, n) == UNION {[1..k -> S] : k \in 0..n}

NodeLists == {SubSeq(NodeOrder, 1, n) : n \in 1..Len(NodeOrder)}
EdgesOver(ns) == [source : Range(ns), destination : Range(ns), weight : Weights]

\* the worked example of the specification: A->B 4, A->C 1, C->B 1
ScenarioNodes == <<"A", "B", "C">>
ScenarioEdges ==
    << [source |-> "A", destination |-> "B", weight |-> 4],
       [source |-> "A", destination |-> "C", weight |-> 1],
       [source |-> "C", destination |-> "B", weight |-> 1] >>

VARIABLES
    nodes, edges, sourceNode,   \* the arguments of the call
    plan,                       \* the algorithms the caller invokes, in order
    alg,                        \* which algorithm is running
    pc,                         \* position inside the running call
    adjList, distances, previous, visited, steps, iteration,
    minNode, nbr,               \* dijkstra: selected node, index into adjList[minNode]
    i, ei, relaxed,             \* bellmanFord: pass, index into edges, pass flag
    result,                     \* the value returned by the last call
    history,                    \* alg -> the result of its earlier call
    calls,                      \* number of calls made
    \* the state of the page (Index.tsx); stepsState and resultState are its
    \* useState cells named steps and result
    selectedAlgorithm, isRunning, isPaused, currentStep, manualMode,
    stepsState, resultState

\* the page state the engine never sees
page == << selectedAlgorithm, isRunning, isPaused, currentStep, manualMode,
           stepsState, resultState >>

vars == << nodes, edges, sourceNode, plan, alg, pc, adjList, distances, previous,
           visited, steps, iteration, minNode, nbr, i, ei, relaxed, result,
           history, calls, page >>

\* what a call of the engine leaves alone: its arguments, the caller's plan
\* and the page
inputs == << nodes, edges, sourceNode, plan, page >>

NoEdge == [source |-> Null, destination |-> Null]
NoResult ==
    [alg |-> "none", distances |-> << >>, previous |-> << >>, steps |-> << >>,
     hasNegativeCycle |-> FALSE, shortestPathTree |-> << >>]
Algs == {"dijkstra", "bellmanFord"}
\* the engine's functions and the other version of bellmanFord, which runs
\* every pass
Variants == Algs \cup {"bellmanFordFull"}
\* the caller runs both versions of bellmanFord on the same graph
VariantOrder == <<"bellmanFord", "bellmanFordFull">>
\* what the caller holds after a call that threw
Thrown == [NoResult EXCEPT !.alg = "TypeError"]

\* ---------------------------------------------------------------- helpers
\* variant: the adjacency list keyed by destination (edges followed backwards)
RECURSIVE OutgoingByDestination(_, _, _)
OutgoingByDestination(es, u, j) ==
    IF j > Len(es) THEN << >>
    ELSE IF es[j].destination = u
         THEN << [node |-> es[j].source, weight |-> es[j].weight] >>
              \o OutgoingByDestination(es, u, j + 1)
         ELSE OutgoingByDestination(es, u, j + 1)

\* variant: unshift instead of push, the outgoing pairs in reverse order
RECURSIVE OutgoingUnshift(_, _, _)
OutgoingUnshift(es, u, j) ==
    IF j > Len(es) THEN << >>
    ELSE IF es[j].source = u
         THEN OutgoingUnshift(es, u, j + 1)
              \o << [node |-> es[j].destination, weight |-> es[j].weight] >>
         ELSE OutgoingUnshift(es, u, j + 1)

\* buildAdjacencyList: one entry per node, the outgoing (node, weight) pairs
\* in edge-list order
RECURSIVE Outgoing(_, _, _)
Outgoing(es, u, j) ==
    IF j > Len(es) THEN << >>
    ELSE IF es[j].source = u
         THEN << [node |-> es[j].destination, weight |-> es[j].weight] >>
              \o Outgoing(es, u, j + 1)
         ELSE Outgoing(es, u, j + 1)

\* variant: assignment instead of push, only the last outgoing edge is kept
buildAdjacencyListOverwrite(ns, es) ==
    [u \in Range(ns) |->
        LET out == Outgoing(es, u, 1)
        IN  IF out = << >> THEN << >> ELSE << out[Len(out)] >>]

buildAdjacencyList(ns, es) == [u \in Range(ns) |-> Outgoing(es, u, 1)]

\* adjList[e.source].push(...) on an id that is no key of adjList: push is
\* read off undefined, a TypeError
buildAdjacencyListThrows(ns, es) ==
    \E j \in DOMAIN es : es[j].source \notin Range(ns)

\* variant: the maps outlive the call, a later call starts from what the
\* call before it left behind
InitDistancesStale(ns, src) ==
    IF result.alg # "none" THEN result.distances
    ELSE [n \in Range(ns) |-> IF n = src THEN 0 ELSE Infinity]

\* variant: the comparison with the source inverted
InitDistancesInverted(ns, src) == [n \in Range(ns) |-> IF n # src THEN 0 ELSE Infinity]

\* nodes.forEach(n => { distances[n.id] = n.id === sourceNode ? 0 : Infinity; ... })
InitDistances(ns, src) == [n \in Range(ns) |-> IF n = src THEN 0 ELSE Infinity]
\* variant: every node starts as its own predecessor
InitPreviousSelf(ns) == [n \in Range(ns) |-> n]

InitPrevious(ns) == [n \in Range(ns) |-> Null]

\* variant: steps hold references to the live maps
EmittedLive(st, d, p) ==
    [j \in DOMAIN st |-> [st[j] EXCEPT !.distances = d, !.previous = p]]

\* variant: distances copied, previous shared with the live map
EmittedSharedPrevious(st, d, p) ==
    [j \in DOMAIN st |-> [st[j] EXCEPT !.previous = p]]

\* { ...distances }, { ...previous }: a step owns copies of the two maps, so
\* the steps already pushed are what they were when the live maps change to
\* (d, p)
Emitted(st, d, p) == st

Step(type, it, node, edge, d, p, upd) ==
    [type |-> type, iteration |-> it, currentNode |-> node, currentEdge |-> edge,
     distances |-> d, previous |-> p, updatedNodes |-> upd]

\* variant: the complete step is never pushed
CompleteStepsMissing(st, it, d, p) == st

\* steps.push({ type: 'complete', ... }) at the end of either algorithm
CompleteSteps(st, it, d, p) ==
    Append(st, Step("complete", it, Null, NoEdge, d, p, << >>))

\* variant: a complete step follows the negative_cycle step
NegativeCycleThenComplete(st, it, e, d, p) ==
    Append(Append(st, Step("negative_cycle", it, Null,
                           [source |-> e.source, destination |-> e.destination],
                           d, p, << >>)),
           Step("complete", it, Null, NoEdge, d, p, << >>))

\* steps.push({ type: 'negative_cycle', ... }) of bellmanFord; it returns at once
NegativeCycleSteps(st, it, e, d, p) ==
    Append(st, Step("negative_cycle", it, Null,
                    [source |-> e.source, destination |-> e.destination],
                    d, p, << >>))

\* variant: the update step carries the index of the pass after
UpdateStepsNextPass(st, it, d, p) ==
    Append(st, Step("update", it + 1, Null, NoEdge, d, p, << >>))

\* steps.push({ type: 'update', iteration: i, ... }) before the break
UpdateSteps(st, it, d, p) ==
    Append(st, Step("update", it, Null, NoEdge, d, p, << >>))

\* variant: one pass too few
LastPassShort(ns) == Len(ns) - 2

\* variant: one pass too many (i <= nodes.length)
LastPassLong(ns) == Len(ns)

\* for (let i = 1; i <= nodes.length - 1; i++): the last pass index
LastPass(ns) == Len(ns) - 1

\* variant: the counter is not advanced
NextIterationStuck(it) == it

\* iteration++ at the end of a turn of dijkstra's loop
NextIteration(it) == it + 1

\* variant: <= instead of <, the last node of a tie wins
RECURSIVE ScanMinNonStrict(_, _, _, _, _, _)
ScanMinNonStrict(ns, vis, d, j, mNode, mDist) ==
    IF j > Len(ns) THEN [node |-> mNode, dist |-> mDist]
    ELSE IF ns[j] \notin vis /\ d[ns[j]] <= mDist /\ d[ns[j]] # Infinity
         THEN ScanMinNonStrict(ns, vis, d, j + 1, ns[j], d[ns[j]])
         ELSE ScanMinNonStrict(ns, vis, d, j + 1, mNode, mDist)

\* variant: the scan does not skip visited nodes
RECURSIVE ScanMinRevisit(_, _, _, _, _, _)
ScanMinRevisit(ns, vis, d, j, mNode, mDist) ==
    IF j > Len(ns) THEN [node |-> mNode, dist |-> mDist]
    ELSE IF d[ns[j]] < mDist
         THEN ScanMinRevisit(ns, vis, d, j + 1, ns[j], d[ns[j]])
         ELSE ScanMinRevisit(ns, vis, d, j + 1, mNode, mDist)

\* the selection scan of dijkstra: first unvisited node with the strictly
\* smallest distance below Infinity
RECURSIVE ScanMin(_, _, _, _, _, _)
ScanMin(ns, vis, d, j, mNode, mDist) ==
    IF j > Len(ns) THEN [node |-> mNode, dist |-> mDist]
    ELSE IF ns[j] \notin vis /\ d[ns[j]] < mDist
         THEN ScanMin(ns, vis, d, j + 1, ns[j], d[ns[j]])
         ELSE ScanMin(ns, vis, d, j + 1, mNode, mDist)

\* variant: the scan starts at the second node
SelectMinSkipFirst(ns, vis, d) == ScanMin(ns, vis, d, 2, Null, Infinity)

SelectMin(ns, vis, d) == ScanMin(ns, vis, d, 1, Null, Infinity)

\* variant: the last matching edge instead of the first
RECURSIVE FindEdgeLast(_, _, _, _)
FindEdgeLast(es, s, t, j) ==
    LET later == IF j >= Len(es) THEN 0 ELSE FindEdgeLast(es, s, t, j + 1)
    IN  IF later # 0 THEN later
        ELSE IF j <= Len(es) /\ es[j].source = s /\ es[j].destination = t THEN j
             ELSE 0

\* edges.find(e => e.source === s && e.destination === t): index or 0
RECURSIVE FindEdge(_, _, _, _)
FindEdge(es, s, t, j) ==
    IF j > Len(es) THEN 0
    ELSE IF es[j].source = s /\ es[j].destination = t THEN j
         ELSE FindEdge(es, s, t, j + 1)

\* variant: the edge is looked up from the node to its predecessor
RECURSIVE BuildTreeSwapped(_, _, _, _)
BuildTreeSwapped(ns, es, p, j) ==
    IF j > Len(ns) THEN << >>
    ELSE LET n == ns[j]
             f == IF Falsy(p[n]) THEN 0 ELSE FindEdge(es, n, p[n], 1)
         IN  (IF f = 0 THEN << >> ELSE << es[f] >>)
             \o BuildTreeSwapped(ns, es, p, j + 1)

\* shortest-path tree: nodes in node order whose previous is truthy, each
\* with the first edge previous[n] -> n of the edge list
RECURSIVE BuildTree(_, _, _, _)
BuildTree(ns, es, p, j) ==
    IF j > Len(ns) THEN << >>
    ELSE LET n == ns[j]
             f == IF Falsy(p[n]) THEN 0 ELSE FindEdge(es, p[n], n, 1)
         IN  (IF f = 0 THEN << >> ELSE << es[f] >>) \o BuildTree(ns, es, p, j + 1)

\* variant: the detection scan accepts equality
RECURSIVE FirstImprovingNonStrict(_, _, _)
FirstImprovingNonStrict(es, d, j) ==
    IF j > Len(es) THEN 0
    ELSE IF Add(d[es[j].source], es[j].weight) <= d[es[j].destination] THEN j
         ELSE FirstImprovingNonStrict(es, d, j + 1)

\* variant: the detection scan reports the last improving edge
RECURSIVE LastImproving(_, _, _)
LastImproving(es, d, j) ==
    IF j > Len(es) THEN 0
    ELSE LET later == LastImproving(es, d, j + 1)
         IN  IF later # 0 THEN later
             ELSE IF Add(d[es[j].source], es[j].weight) < d[es[j].destination]
                  THEN j ELSE 0

\* the detection scan of bellmanFord: index of the first edge with
\* distances[source] + weight < distances[destination], or 0
RECURSIVE FirstImproving(_, _, _)
FirstImproving(es, d, j) ==
    IF j > Len(es) THEN 0
    ELSE IF Less(Add(Get(d, es[j].source), es[j].weight), Get(d, es[j].destination))
         THEN j
         ELSE FirstImproving(es, d, j + 1)

\* ------------------------------------------------------------------ Init
\* Index.tsx, lines 19-30: the useState initial values
IdlePage ==
    /\ selectedAlgorithm = "dijkstra"
    /\ isRunning = FALSE
    /\ isPaused = FALSE
    /\ currentStep = 0
    /\ manualMode = FALSE
    /\ stepsState = << >>
    /\ resultState = NoResult

IdleLocals ==
    /\ IdlePage
    /\ alg = "none"
    /\ pc = "idle"
    /\ adjList = << >>
    /\ distances = << >>
    /\ previous = << >>
    /\ visited = {}
    /\ steps = << >>
    /\ iteration = 0
    /\ minNode = Null
    /\ nbr = 0
    /\ i = 0
    /\ ei = 0
    /\ relaxed = FALSE
    /\ result = NoResult
    /\ history = [a \in Variants |-> NoResult]

\* a graph the input panel can build, and any source the panel offered
WellFormedInput ==
    /\ \/ /\ nodes \in NodeLists
          /\ edges \in SeqsUpTo(EdgesOver(nodes), MaxEdges)
       \/ /\ nodes = ScenarioNodes
          /\ edges = ScenarioEdges
    /\ sourceNode \in Range(nodes) \cup {AbsentId}

Init ==
    /\ WellFormedInput
    /\ plan = CallOrder
    /\ IdleLocals
    /\ calls = 0

InitRerun ==
    /\ WellFormedInput
    /\ plan = RerunOrder
    /\ IdleLocals
    /\ calls = 0

\* --------------------------------------------------------------- actions
\* the caller invokes an algorithm; the result of the call before it is
\* kept for comparison
Call(a) ==
    /\ pc = "idle"
    /\ calls < Len(plan)
    /\ a = plan[calls + 1]
    /\ calls' = calls + 1
    /\ alg' = a
    /\ history' = IF result.alg \in Variants
                  THEN [history EXCEPT ![result.alg] = result]
                  ELSE history
    /\ result' = NoResult

\* the function returns r; its locals are gone
Return(r) ==
    /\ result' = r
    /\ pc' = "idle"
    /\ alg' = "none"
    /\ adjList' = << >>
    /\ distances' = << >>
    /\ previous' = << >>
    /\ visited' = {}
    /\ iteration' = 0
    /\ minNode' = Null
    /\ nbr' = 0
    /\ i' = 0
    /\ ei' = 0
    /\ relaxed' = FALSE
    /\ steps' = << >>
    /\ UNCHANGED << inputs, history, calls >>

\* dijkstra, lines 46-66
StartDijkstra ==
    /\ Call("dijkstra")
    /\ IF buildAdjacencyListThrows(nodes, edges)
       THEN /\ pc' = "d_throw"
            /\ UNCHANGED << adjList, distances, previous, visited, steps, iteration >>
       ELSE /\ adjList' = buildAdjacencyList(nodes, edges)
            /\ distances' = InitDistances(nodes, sourceNode)
            /\ previous' = InitPrevious(nodes)
            /\ visited' = {}
            /\ steps' = << Step("initial", 0, Null, NoEdge, distances', previous', << >>) >>
            /\ iteration' = 1
            /\ pc' = "d_loop"
    /\ UNCHANGED << inputs, minNode, nbr, i, ei, relaxed >>

\* dijkstra, line 46: the TypeError of buildAdjacencyList leaves dijkstra
DijkstraThrow ==
    /\ pc = "d_throw"
    /\ Return(Thrown)

\* dijkstra, lines 68-89: one turn of the while loop up to the select step
DijkstraSelect ==
    /\ pc = "d_loop"
    /\ Cardinality(visited) < Len(nodes)
    /\ LET m == SelectMin(nodes, visited, distances)
       IN  /\ ~Falsy(m.node)
           /\ visited' = visited \cup {m.node}
           /\ minNode' = m.node
           /\ steps' = Append(steps,
                  Step("select", iteration, m.node, NoEdge, distances, previous, << >>))
    /\ nbr' = 1
    /\ pc' = "d_relax"
    /\ UNCHANGED << inputs, alg, adjList, distances, previous, iteration, i, ei,
                    relaxed, result, history, calls >>

\* dijkstra, lines 91-108: one neighbour of the selected node
DijkstraRelax ==
    /\ pc = "d_relax"
    /\ nbr <= Len(adjList[minNode])
    /\ LET neighbor == adjList[minNode][nbr].node
           newDist == Add(distances[minNode], adjList[minNode][nbr].weight)
       IN  IF Less(newDist, Get(distances, neighbor))
           THEN /\ distances' = [distances EXCEPT ![neighbor] = newDist]
                /\ previous' = [previous EXCEPT ![neighbor] = minNode]
                /\ steps' = Append(Emitted(steps, distances', previous'),
                       Step("relax", iteration, Null,
                            [source |-> minNode, destination |-> neighbor],
                            distances', previous', << neighbor >>))
           ELSE UNCHANGED << distances, previous, steps >>
    /\ nbr' = nbr + 1
    /\ UNCHANGED << inputs, alg, pc, adjList, visited, iteration, minNode, i, ei,
                    relaxed, result, history, calls >>

\* dijkstra, line 109: the neighbours are exhausted
DijkstraNext ==
    /\ pc = "d_relax"
    /\ nbr > Len(adjList[minNode])
    /\ iteration' = NextIteration(iteration)
    /\ pc' = "d_loop"
    /\ UNCHANGED << inputs, alg, adjList, distances, previous, visited, steps,
                    minNode, nbr, i, ei, relaxed, result, history, calls >>

\* dijkstra, lines 68, 78, 112-127: the loop ends, tree, complete step, return
DijkstraComplete ==
    /\ pc = "d_loop"
    /\ \/ Cardinality(visited) >= Len(nodes)
       \/ Falsy(SelectMin(nodes, visited, distances).node)
    /\ Return([alg |-> "dijkstra",
               distances |-> distances,
               previous |-> previous,
               steps |-> CompleteSteps(steps, iteration, distances, previous),
               hasNegativeCycle |-> FALSE,
               shortestPathTree |-> BuildTree(nodes, edges, previous, 1)])

\* bellmanFord, lines 132-151
StartBellmanFord ==
    /\ Call("bellmanFord")
    /\ distances' = InitDistances(nodes, sourceNode)
    /\ previous' = InitPrevious(nodes)
    /\ steps' = << Step("initial", 0, Null, NoEdge, distances', previous', << >>) >>
    /\ i' = 1
    /\ ei' = 1
    /\ relaxed' = FALSE
    /\ pc' = "b_pass"
    /\ UNCHANGED << inputs, adjList, visited, iteration, minNode, nbr >>

\* bellmanFord, lines 154-171: one edge of pass i
BFRelax ==
    /\ pc = "b_pass"
    /\ i <= LastPass(nodes)
    /\ ei <= Len(edges)
    /\ LET source == edges[ei].source
           destination == edges[ei].destination
           weight == edges[ei].weight
       IN  IF /\ Get(distances, source) # Infinity
              /\ Less(Add(Get(distances, source), weight), Get(distances, destination))
           THEN /\ distances' = [distances EXCEPT
                                   ![destination] = Add(distances[source], weight)]
                /\ previous' = [previous EXCEPT ![destination] = source]
                /\ relaxed' = TRUE
                /\ steps' = Append(Emitted(steps, distances', previous'),
                       Step("relax", i, Null,
                            [source |-> source, destination |-> destination],
                            distances', previous', << destination >>))
           ELSE UNCHANGED << distances, previous, relaxed, steps >>
    /\ ei' = ei + 1
    /\ UNCHANGED << inputs, alg, pc, adjList, visited, iteration, minNode, nbr, i,
                    result, history, calls >>

\* bellmanFord, lines 151-152, 173-183: pass i has scanned every edge
BFPassEnd ==
    /\ pc = "b_pass"
    /\ i <= LastPass(nodes)
    /\ ei > Len(edges)
    /\ IF ~relaxed
       THEN /\ steps' = UpdateSteps(steps, i, distances, previous)
            /\ pc' = "b_detect"
            /\ UNCHANGED << i, ei, relaxed >>
       ELSE /\ i' = i + 1
            /\ ei' = 1
            /\ relaxed' = FALSE
            /\ UNCHANGED << steps, pc >>
    /\ UNCHANGED << inputs, alg, adjList, distances, previous, visited, iteration,
                    minNode, nbr, result, history, calls >>

\* the relaxation loop of bellmanFord is over (break, or i > |V|-1)
PassesDone == pc = "b_detect" \/ (pc = "b_pass" /\ i > LastPass(nodes))

\* bellmanFord, lines 186-199: the scan finds an improving edge
BFNegativeCycle ==
    /\ PassesDone
    /\ LET f == FirstImproving(edges, distances, 1)
       IN  /\ f # 0
           /\ Return([alg |-> "bellmanFord",
                      distances |-> distances,
                      previous |-> previous,
                      steps |-> NegativeCycleSteps(steps, Len(nodes), edges[f],
                                                   distances, previous),
                      hasNegativeCycle |-> TRUE,
                      shortestPathTree |-> << >>])

\* bellmanFord, lines 186-216: the scan finds nothing; tree, complete, return
BFComplete ==
    /\ PassesDone
    /\ FirstImproving(edges, distances, 1) = 0
    /\ Return([alg |-> "bellmanFord",
               distances |-> distances,
               previous |-> previous,
               steps |-> CompleteSteps(steps, Len(nodes), distances, previous),
               hasNegativeCycle |-> FALSE,
               shortestPathTree |-> BuildTree(nodes, edges, previous, 1)])

Next ==
    \/ StartDijkstra
    \/ DijkstraSelect
    \/ DijkstraRelax
    \/ DijkstraNext
    \/ DijkstraComplete
    \/ StartBellmanFord
    \/ BFRelax
    \/ BFPassEnd
    \/ BFNegativeCycle
    \/ BFComplete

Spec == Init /\ [][Next]_vars

\* ------------------------------------- the bellmanFord that runs every pass
\* variant: one pass too few
FullPassesShort(ns) == Len(ns) - 2

\* for (let i = 0; i < nodes.length - 1; i++): the number of passes
FullPasses(ns) == Len(ns) - 1

\* the detection scan of the other version: first edge with a finite source
\* distance that still improves, or 0
RECURSIVE FirstImprovingFinite(_, _, _)
FirstImprovingFinite(es, d, j) ==
    IF j > Len(es) THEN 0
    ELSE IF /\ Get(d, es[j].source) # Infinity
            /\ Less(Add(Get(d, es[j].source), es[j].weight), Get(d, es[j].destination))
         THEN j
         ELSE FirstImprovingFinite(es, d, j + 1)

\* part_001, lines 175-199
StartBellmanFordFull ==
    /\ Call("bellmanFordFull")
    /\ distances' = InitDistances(nodes, sourceNode)
    /\ previous' = InitPrevious(nodes)
    /\ steps' = << Step("initial", 0, Null, NoEdge, distances', previous', << >>) >>
    /\ iteration' = 1
    /\ i' = 0
    /\ ei' = 1
    /\ relaxed' = FALSE
    /\ pc' = "f_pass"
    /\ UNCHANGED << inputs, adjList, visited, minNode, nbr >>

\* part_001, lines 204-226: one edge of a pass
FullRelax ==
    /\ pc = "f_pass"
    /\ i < FullPasses(nodes)
    /\ ei <= Len(edges)
    /\ LET source == edges[ei].source
           destination == edges[ei].destination
           newDist == Add(Get(distances, source), edges[ei].weight)
       IN  IF /\ Get(distances, source) # Infinity
              /\ Less(newDist, Get(distances, destination))
           THEN /\ distances' = [distances EXCEPT ![destination] = newDist]
                /\ previous' = [previous EXCEPT ![destination] = source]
                /\ relaxed' = TRUE
                /\ steps' = Append(Emitted(steps, distances', previous'),
                       Step("relax", iteration, Null,
                            [source |-> source, destination |-> destination],
                            distances', previous', << destination >>))
           ELSE UNCHANGED << distances, previous, relaxed, steps >>
    /\ ei' = ei + 1
    /\ UNCHANGED << inputs, alg, pc, adjList, visited, iteration, minNode, nbr, i,
                    result, history, calls >>

\* part_001, lines 228-239: the pass has scanned every edge; no break
FullPassEnd ==
    /\ pc = "f_pass"
    /\ i < FullPasses(nodes)
    /\ ei > Len(edges)
    /\ steps' = IF relaxed THEN steps
                 ELSE UpdateSteps(steps, iteration, distances, previous)
    /\ iteration' = iteration + 1
    /\ i' = i + 1
    /\ ei' = 1
    /\ relaxed' = FALSE
    /\ UNCHANGED << inputs, alg, pc, adjList, distances, previous, visited,
                    minNode, nbr, result, history, calls >>

\* part_001, lines 241-297: detection scan, tree, complete step, return
FullComplete ==
    /\ pc = "f_pass"
    /\ i >= FullPasses(nodes)
    /\ LET f == FirstImprovingFinite(edges, distances, 1)
           scanned ==
               IF f = 0 THEN steps
               ELSE Append(steps,
                        Step("negative_cycle", iteration, Null,
                             [source |-> edges[f].source,
                              destination |-> edges[f].destination],
                             distances, previous, << >>))
       IN  Return([alg |-> "bellmanFordFull",
                   distances |-> distances,
                   previous |-> previous,
                   steps |-> CompleteSteps(scanned, iteration, distances, previous),
                   hasNegativeCycle |-> f # 0,
                   shortestPathTree |-> BuildTree(nodes, edges, previous, 1)])

InitVariants ==
    /\ WellFormedInput
    /\ plan = VariantOrder
    /\ IdleLocals
    /\ calls = 0

NextVariants ==
    \/ StartBellmanFord
    \/ BFRelax
    \/ BFPassEnd
    \/ BFNegativeCycle
    \/ BFComplete
    \/ StartBellmanFordFull
    \/ FullRelax
    \/ FullPassEnd
    \/ FullComplete

\* both versions of bellmanFord, one after the other on the same graph
SpecVariants == InitVariants /\ [][NextVariants]_vars

\* ------------------------------------------------------------- the page
\* what the user can type into the node field: an id or nothing, with or
\* without blanks around it
PageIds == {"A", "B"}
NodeInputs == [text : PageIds \cup {""}, padded : BOOLEAN]
\* nodeInput.trim()
Trim(x) == x.text
\* what the edge field yields after split and parseInt: two words and a
\* number, NaN when the third word is no number
PageWeights == {1}
EdgeInputs ==
    [source : PageIds \cup {AbsentId}, destination : PageIds \cup {AbsentId},
     weight : PageWeights \cup {NaN}]

\* selectedAlgorithm as the name of the engine function handleRun calls
EngineFunction(a) == IF a = "dijkstra" THEN "dijkstra" ELSE "bellmanFord"

\* the locals of the engine, which no handler of the page touches
engine == << alg, pc, adjList, distances, previous, visited, steps, iteration,
             minNode, nbr, i, ei, relaxed, history >>

\* variant: the cursor may move onto steps.length
LastIndexPastEnd(st) == Len(st)

\* steps.length - 1, the bound of handleNextStep and of the interval
LastIndex(st) == Len(st) - 1

\* no handler runs while another one, or the engine it called, is running
PageIdle == pc = "idle" /\ plan = << >>

\* the right panel (mode, pause, stop, step buttons) is rendered
PanelShown == isRunning /\ Len(stepsState) > 0

\* InputPanel.handleAddNode, part_000 lines 208-214, and Index.handleAddNode
HandleAddNode(nodeInput) ==
    /\ PageIdle
    /\ LET nodeId == Trim(nodeInput)
       IN  /\ nodeId # ""
           /\ nodeId \notin Range(nodes)
           /\ nodes' = Append(nodes, nodeId)
    /\ UNCHANGED << edges, sourceNode, plan, page, engine, result, calls >>

\* InputPanel.handleAddEdge, part_000 lines 216-231, and Index.handleAddEdge
HandleAddEdge(edge) ==
    /\ PageIdle
    /\ edge.weight # NaN
    /\ edge.source \in Range(nodes)
    /\ edge.destination \in Range(nodes)
    /\ ~\E j \in DOMAIN edges :
          edges[j].source = edge.source /\ edges[j].destination = edge.destination
    /\ edges' = Append(edges, edge)
    /\ UNCHANGED << nodes, sourceNode, plan, page, engine, result, calls >>

\* variant: only the edges leaving the node are dropped
WithoutNodeSourceOnly(es, nodeId) == SelectSeq(es, LAMBDA e : e.source # nodeId)

\* edges.filter(e => e.source !== nodeId && e.destination !== nodeId)
WithoutNode(es, nodeId) ==
    SelectSeq(es, LAMBDA e : e.source # nodeId /\ e.destination # nodeId)

\* Index.handleRemoveNode, lines 55-58
HandleRemoveNode(nodeId) ==
    /\ PageIdle
    /\ nodeId \in Range(nodes)
    /\ nodes' = SelectSeq(nodes, LAMBDA n : n # nodeId)
    /\ edges' = WithoutNode(edges, nodeId)
    /\ UNCHANGED << sourceNode, plan, page, engine, result, calls >>

\* Index.handleRemoveEdge, lines 61-63
HandleRemoveEdge(index) ==
    /\ PageIdle
    /\ index \in DOMAIN edges
    /\ edges' = [j \in 1..(Len(edges) - 1) |->
                    IF j < index THEN edges[j] ELSE edges[j + 1]]
    /\ UNCHANGED << nodes, sourceNode, plan, page, engine, result, calls >>

\* Index.handleClear, lines 66-75; the button exists while there is a graph
HandleClear ==
    /\ PageIdle
    /\ Len(nodes) > 0 \/ Len(edges) > 0
    /\ nodes' = << >>
    /\ edges' = << >>
    /\ sourceNode' = ""
    /\ isRunning' = FALSE
    /\ isPaused' = FALSE
    /\ currentStep' = 0
    /\ resultState' = NoResult
    /\ stepsState' = << >>
    /\ UNCHANGED << selectedAlgorithm, manualMode, plan, engine, result, calls >>

\* ControlPanel, part_000 lines 85-97: the source select, disabled while
\* running or without nodes
SelectSource(value) ==
    /\ PageIdle
    /\ ~isRunning
    /\ Len(nodes) > 0
    /\ value \in Range(nodes) \cup {""}
    /\ sourceNode' = value
    /\ UNCHANGED << nodes, edges, plan, page, engine, result, calls >>

\* ControlPanel, part_000 lines 57-78: the algorithm buttons
SelectAlgorithm(a) ==
    /\ PageIdle
    /\ ~isRunning
    /\ selectedAlgorithm' = a
    /\ UNCHANGED << nodes, edges, sourceNode, plan, isRunning, isPaused, currentStep,
                    manualMode, stepsState, resultState, engine, result, calls >>

\* Index.handleRun, lines 78-87, behind the Start button of lines 266-277:
\* the guard and the call of the engine
HandleRun ==
    /\ PageIdle
    /\ ~isRunning
    /\ ~(sourceNode = "" \/ Len(nodes) = 0)
    /\ plan' = << EngineFunction(selectedAlgorithm) >>
    /\ calls' = 0
    /\ UNCHANGED << nodes, edges, sourceNode, page, engine, result >>

\* Index.handleRun, lines 89-93: the engine has returned
HandleRunReturned ==
    /\ pc = "idle"
    /\ plan # << >>
    /\ calls = Len(plan)
    /\ resultState' = result
    /\ stepsState' = result.steps
    /\ isRunning' = TRUE
    /\ isPaused' = FALSE
    /\ currentStep' = 0
    /\ plan' = << >>
    /\ calls' = 0
    /\ result' = NoResult
    /\ UNCHANGED << nodes, edges, sourceNode, selectedAlgorithm, manualMode, engine >>

\* Index.handlePause, lines 97-99, behind the Pause button
HandlePause ==
    /\ PageIdle
    /\ PanelShown
    /\ ~isPaused
    /\ isPaused' = TRUE
    /\ UNCHANGED << nodes, edges, sourceNode, plan, selectedAlgorithm, isRunning,
                    currentStep, manualMode, stepsState, resultState, engine,
                    result, calls >>

\* Index.handleResume, lines 102-104, behind the Resume button
HandleResume ==
    /\ PageIdle
    /\ PanelShown
    /\ isPaused
    /\ isPaused' = FALSE
    /\ UNCHANGED << nodes, edges, sourceNode, plan, selectedAlgorithm, isRunning,
                    currentStep, manualMode, stepsState, resultState, engine,
                    result, calls >>

\* Index.handleReset, lines 107-113, behind the Stop button
HandleReset ==
    /\ PageIdle
    /\ PanelShown
    /\ isRunning' = FALSE
    /\ isPaused' = FALSE
    /\ currentStep' = 0
    /\ resultState' = NoResult
    /\ stepsState' = << >>
    /\ UNCHANGED << nodes, edges, sourceNode, plan, selectedAlgorithm, manualMode,
                    engine, result, calls >>

\* setManualMode, Index lines 336-355: the Auto and Manual buttons
SetManualMode(mode) ==
    /\ PageIdle
    /\ PanelShown
    /\ manualMode' = mode
    /\ UNCHANGED << nodes, edges, sourceNode, plan, selectedAlgorithm, isRunning,
                    isPaused, currentStep, stepsState, resultState, engine,
                    result, calls >>

\* Index.handlePreviousStep, lines 116-120, behind the manual-mode button
HandlePreviousStep ==
    /\ PageIdle
    /\ PanelShown
    /\ manualMode
    /\ currentStep' = IF currentStep > 0 THEN currentStep - 1 ELSE currentStep
    /\ UNCHANGED << nodes, edges, sourceNode, plan, selectedAlgorithm, isRunning,
                    isPaused, manualMode, stepsState, resultState, engine,
                    result, calls >>

\* Index.handleNextStep, lines 123-127, behind the manual-mode button
HandleNextStep ==
    /\ PageIdle
    /\ PanelShown
    /\ manualMode
    /\ currentStep' = IF currentStep < LastIndex(stepsState) THEN currentStep + 1
                       ELSE currentStep
    /\ UNCHANGED << nodes, edges, sourceNode, plan, selectedAlgorithm, isRunning,
                    isPaused, manualMode, stepsState, resultState, engine,
                    result, calls >>

\* variant: the effect does not look at manualMode
TimerActiveInManual == isRunning /\ ~isPaused /\ Len(stepsState) # 0

\* the interval of the effect at Index lines 130-147 is set
TimerActive == isRunning /\ ~isPaused /\ Len(stepsState) # 0 /\ ~manualMode

\* Index lines 135-144: the interval fires
Tick ==
    /\ PageIdle
    /\ TimerActive
    /\ IF currentStep < LastIndex(stepsState)
       THEN /\ currentStep' = currentStep + 1
            /\ UNCHANGED isRunning
       ELSE /\ isRunning' = FALSE
            /\ UNCHANGED currentStep
    /\ UNCHANGED << nodes, edges, sourceNode, plan, selectedAlgorithm, isPaused,
                    manualMode, stepsState, resultState, engine, result, calls >>

\* the page as it is loaded: no graph, no source
InitEditor ==
    /\ nodes = << >>
    /\ edges = << >>
    /\ sourceNode = ""
    /\ plan = << >>
    /\ IdleLocals
    /\ calls = 0

\* building a graph in the input panel, choosing a source and starting runs
\* of the default algorithm
NextEditor ==
    \/ \E nodeInput \in NodeInputs : HandleAddNode(nodeInput)
    \/ \E edge \in EdgeInputs : HandleAddEdge(edge)
    \/ \E nodeId \in PageIds : HandleRemoveNode(nodeId)
    \/ \E index \in 1..Len(edges) : HandleRemoveEdge(index)
    \/ HandleClear
    \/ \E value \in PageIds \cup {""} : SelectSource(value)
    \/ HandleRun
    \/ StartDijkstra
    \/ DijkstraSelect
    \/ DijkstraRelax
    \/ DijkstraNext
    \/ DijkstraComplete
    \/ HandleRunReturned
    \/ HandleReset

SpecEditor == InitEditor /\ [][NextEditor]_vars

\* a page holding a graph and a source chosen earlier (possibly a node
\* removed since), nothing run yet
InitPlayback ==
    /\ \/ /\ nodes \in NodeLists
          /\ edges \in SeqsUpTo(EdgesOver(nodes), 1)
       \/ /\ nodes = ScenarioNodes
          /\ edges = ScenarioEdges
    /\ sourceNode \in Range(nodes) \cup {"", AbsentId}
    /\ plan = << >>
    /\ IdleLocals
    /\ calls = 0

\* running and playing back, the graph left as it is
NextPlayback ==
    \/ \E a \in {"dijkstra", "bellman-ford"} : SelectAlgorithm(a)
    \/ HandleRun
    \/ Next
    \/ HandleRunReturned
    \/ HandlePause
    \/ HandleResume
    \/ HandleReset
    \/ \E mode \in BOOLEAN : SetManualMode(mode)
    \/ HandlePreviousStep
    \/ HandleNextStep
    \/ Tick
    \/ HandleClear

SpecPlayback == InitPlayback /\ [][NextPlayback]_vars

\* the interval keeps firing while it is set
SpecPlaybackFair == SpecPlayback /\ WF_vars(Tick)

\* a call in progress always takes its next step: the engine is synchronous
\* and runs to completion
SpecFair == Spec /\ WF_vars(Next)

\* --------------------------------------------------- malformed edge lists
\* edges with an endpoint outside the node list: one such edge alone, or
\* before or after one well-formed edge
MalformedEdges(ns) ==
    {e \in EdgesOver(ns \o << AbsentId >>) :
        e.source = AbsentId \/ e.destination = AbsentId}
MalformedEdgeLists(ns) ==
    {<< m >> : m \in MalformedEdges(ns)}
    \cup {<< m, e >> : m \in MalformedEdges(ns), e \in EdgesOver(ns)}
    \cup {<< e, m >> : m \in MalformedEdges(ns), e \in EdgesOver(ns)}

InitMalformed ==
    /\ nodes \in NodeLists
    /\ edges \in MalformedEdgeLists(nodes)
    /\ sourceNode \in Range(nodes)
    /\ plan = CallOrder
    /\ IdleLocals
    /\ calls = 0

NextMalformed == Next \/ DijkstraThrow

\* the engine called directly with an edge list the input panel would refuse
SpecMalformed == InitMalformed /\ [][NextMalformed]_vars

\* the same engine, each algorithm called twice
SpecRerun == InitRerun /\ [][Next]_vars

\* ------------------------------------------------- reference definitions
\* graph theory the claims are stated in; none of it is used by the actions
Min(S) == CHOOSE x \in S : \A y \in S : x <= y

HasEdge(u, v) == \E j \in DOMAIN edges : edges[j].source = u /\ edges[j].destination = v
\* the lightest of the parallel edges u -> v
EdgeWeight(u, v) ==
    Min({edges[j].weight : j \in {k \in DOMAIN edges :
            edges[k].source = u /\ edges[k].destination = v}})

Last(s) == s[Len(s)]

RECURSIVE WalkWeight(_, _)
WalkWeight(p, j) ==
    IF j >= Len(p) THEN 0 ELSE EdgeWeight(p[j], p[j + 1]) + WalkWeight(p, j + 1)

\* the paths of P, each extended by one edge to a node it has not visited
Extensions(P) ==
    {Append(pv[1], pv[2]) : pv \in {qv \in P \X Range(nodes) :
        HasEdge(Last(qv[1]), qv[2]) /\ qv[2] \notin Range(qv[1])}}

RECURSIVE Closure(_)
Closure(P) == IF P = {} THEN {} ELSE P \cup Closure(Extensions(P))

\* every directed simple path that starts at s (the one-node path included)
SimplePathsFrom(s) == IF s \in Range(nodes) THEN Closure({<< s >>}) ELSE {}

\* the nodes the paths of P end in
EndsOf(P) == {Last(p) : p \in P}
Reachable(s) == EndsOf(SimplePathsFrom(s))

\* weight of a lightest path of P that ends in t, Infinity when there is none
MinWeightTo(P, t) ==
    LET to == {p \in P : Last(p) = t}
    IN  IF to = {} THEN Infinity ELSE Min({WalkWeight(p, 1) : p \in to})

\* a cycle of negative total weight through a node reachable from s
NegativeCycleReachable(s) ==
    \E u \in Reachable(s) :
        \E c \in SimplePathsFrom(u) :
            /\ HasEdge(Last(c), u)
            /\ WalkWeight(c, 1) + EdgeWeight(Last(c), u) < 0

NonNegativeWeights == \A j \in DOMAIN edges : edges[j].weight >= 0
SourcePresent == sourceNode \in Range(nodes)
Returned(a) == result.alg = a
Count(st, type) == Cardinality({j \in DOMAIN st : st[j].type = type})
\* the step sequences that exist in a state: the one under construction and
\* the one returned
StepSeqs == {steps, result.steps}

\* ------------------------------------------------------------------ claims
\* C1: on non-negative weights and a source in the node list, dijkstra
\* returns for every node the weight of a minimum-weight directed path from
\* the source, and Infinity exactly for the nodes no path reaches.
Thm_C1_DijkstraShortestPaths ==
    (Returned("dijkstra") /\ NonNegativeWeights /\ SourcePresent) =>
        LET paths == SimplePathsFrom(sourceNode)
        IN  \A n \in Range(nodes) :
                /\ result.distances[n] = MinWeightTo(paths, n)
                /\ (result.distances[n] = Infinity) <=> (n \notin EndsOf(paths))

\* a dijkstra run in which a two-edge path beat a direct edge from the source
Wit_C1_DijkstraShortestPaths ==
    /\ Returned("dijkstra") /\ NonNegativeWeights /\ SourcePresent
    /\ \E n \in Range(nodes) :
          /\ result.previous[n] \notin {Null, sourceNode}
          /\ HasEdge(sourceNode, n)
          /\ result.distances[n] < EdgeWeight(sourceNode, n)
    /\ \E n \in Range(nodes) : result.distances[n] > 0 /\ result.distances[n] < Infinity

\* C2: on non-negative weights dijkstra and bellmanFord, called on the same
\* nodes, edges and source, return the same distance for every node.
Thm_C2_DijkstraEqualsBellmanFord ==
    \A a \in Algs :
        (Returned(a) /\ NonNegativeWeights) =>
            \A b \in Algs \ {a} :
                history[b].alg = b => result.distances = history[b].distances

\* bellmanFord returned after dijkstra on a graph where a node is two edges away
Wit_C2_DijkstraEqualsBellmanFord ==
    /\ Returned("bellmanFord") /\ history["dijkstra"].alg = "dijkstra"
    /\ NonNegativeWeights
    /\ \E n \in Range(nodes) :
          /\ result.previous[n] \notin {Null, sourceNode}
          /\ result.distances[n] > 0

\* C3: bellmanFord returns hasNegativeCycle = true and emits a negative_cycle
\* step exactly when a negative-weight cycle is reachable from the source.
Thm_C3_NegativeCycleDetected ==
    Returned("bellmanFord") =>
        /\ result.hasNegativeCycle <=> NegativeCycleReachable(sourceNode)
        /\ result.hasNegativeCycle <=> Count(result.steps, "negative_cycle") > 0

\* the two-node example: A -> B and B -> A, both of weight -1, source A
Wit_C3_NegativeCycleDetected ==
    /\ Returned("bellmanFord")
    /\ nodes = <<"A", "B">>
    /\ edges = << [source |-> "A", destination |-> "B", weight |-> -1],
                  [source |-> "B", destination |-> "A", weight |-> -1] >>
    /\ sourceNode = "A"
    /\ result.hasNegativeCycle
    /\ Last(result.steps).type = "negative_cycle"

\* C4: when no negative-weight cycle is reachable from the source, bellmanFord
\* (with its early stop) returns for every node the weight of a minimum-weight
\* directed path from the source, Infinity for the unreachable nodes.
Thm_C4_BellmanFordShortestPaths ==
    (Returned("bellmanFord") /\ ~NegativeCycleReachable(sourceNode)) =>
        LET paths == SimplePathsFrom(sourceNode)
        IN  \A n \in Range(nodes) :
                /\ result.distances[n] = MinWeightTo(paths, n)
                /\ n \notin EndsOf(paths) => result.distances[n] = Infinity

\* a bellmanFord run that stopped early, with a negative distance and an
\* unreachable node
Wit_C4_BellmanFordShortestPaths ==
    /\ Returned("bellmanFord") /\ ~NegativeCycleReachable(sourceNode)
    /\ Count(result.steps, "update") = 1
    /\ \E n \in Range(nodes) : result.distances[n] < 0
    /\ \E n \in Range(nodes) : n \notin Reachable(sourceNode)

\* C5: the first step of every run is an initial step of iteration 0; in its
\* snapshot the source has distance 0 and every other node Infinity (all
\* Infinity when the source is not in the node list), and every previous
\* entry is none.
FirstStepInitial(st) ==
    /\ st[1].type = "initial"
    /\ st[1].iteration = 0
    /\ DOMAIN st[1].distances = Range(nodes)
    /\ DOMAIN st[1].previous = Range(nodes)
    /\ {n \in Range(nodes) : st[1].distances[n] # Infinity} = Range(nodes) \cap {sourceNode}
    /\ \A n \in Range(nodes) : n = sourceNode => st[1].distances[n] = 0
    /\ \A n \in Range(nodes) : st[1].previous[n] = Null

Thm_C5_FirstStepInitial ==
    /\ pc # "idle" => steps # << >>
    /\ result.alg # "none" => result.steps # << >>
    /\ \A st \in StepSeqs : st # << >> => FirstStepInitial(st)

\* a returned run whose maps changed after the initial step was pushed
Wit_C5_FirstStepInitial ==
    /\ result.alg # "none" /\ SourcePresent /\ Len(nodes) > 1
    /\ result.distances # result.steps[1].distances
    /\ result.previous # result.steps[1].previous

\* C6: a run that reports no negative cycle returns a step sequence with
\* exactly one initial step, the first, and exactly one complete step, the last.
Thm_C6_OneInitialOneComplete ==
    (result.alg # "none" /\ ~result.hasNegativeCycle) =>
        /\ result.steps[1].type = "initial"
        /\ Count(result.steps, "initial") = 1
        /\ Last(result.steps).type = "complete"
        /\ Count(result.steps, "complete") = 1

\* a run with selections or relaxations in between, and one that broke out of
\* its loop early
Wit_C6_OneInitialOneComplete ==
    /\ result.alg # "none" /\ ~result.hasNegativeCycle
    /\ Len(result.steps) > 3
    /\ \E n \in Range(nodes) : result.distances[n] = Infinity

\* the first edge, in edge-list order, that admits an improving relaxation
\* under the distances d (0 when none does)
Improves(e, d) ==
    /\ d[e.source] # Infinity
    /\ d[e.source] + e.weight < d[e.destination]

FirstImprovingEdge(d) ==
    IF \E j \in DOMAIN edges : Improves(edges[j], d)
    THEN Min({j \in DOMAIN edges : Improves(edges[j], d)})
    ELSE 0

\* C7: when bellmanFord detects a negative cycle, its negative_cycle step
\* names the first edge in edge-list order that still admits an improving
\* relaxation after the passes, hasNegativeCycle is true and the returned
\* shortest-path tree is empty.
Thm_C7_NegativeCycleStep ==
    \A j \in DOMAIN result.steps :
        result.steps[j].type = "negative_cycle" =>
            LET s == result.steps[j]
                f == FirstImprovingEdge(result.distances)
            IN  /\ f # 0
                /\ s.currentEdge = [source |-> edges[f].source,
                                    destination |-> edges[f].destination]
                /\ s.distances = result.distances
                /\ result.hasNegativeCycle
                /\ result.shortestPathTree = << >>

\* a detection in which two edges with different endpoints still improve
Wit_C7_NegativeCycleStep ==
    /\ Returned("bellmanFord") /\ result.hasNegativeCycle
    /\ \E a, b \in DOMAIN edges :
          /\ a < b
          /\ Improves(edges[a], result.distances)
          /\ Improves(edges[b], result.distances)
          /\ << edges[a].source, edges[a].destination >>
                # << edges[b].source, edges[b].destination >>

\* C8: when bellmanFord detects a negative cycle the negative_cycle step is
\* emitted once, it is the last step of the returned sequence (no complete
\* step follows it), and the call returns with the push: no running call
\* holds a negative_cycle step.
Thm_C8_NegativeCycleTerminal ==
    /\ result.hasNegativeCycle =>
          /\ Count(result.steps, "negative_cycle") = 1
          /\ Last(result.steps).type = "negative_cycle"
          /\ Count(result.steps, "complete") = 0
    /\ Count(steps, "negative_cycle") = 0

\* a detection after at least one relaxation
Wit_C8_NegativeCycleTerminal ==
    /\ Returned("bellmanFord") /\ result.hasNegativeCycle
    /\ Count(result.steps, "relax") > 1

\* C9: in every step snapshot and in the returned maps, a node whose previous
\* is none has distance Infinity, or 0 and is the source; a node whose
\* previous is a node id has a finite distance.
PreviousAgrees(d, p) ==
    \A n \in Range(nodes) :
        /\ p[n] = Null => (d[n] = Infinity \/ (d[n] = 0 /\ n = sourceNode))
        /\ p[n] # Null => (p[n] \in Range(nodes) /\ d[n] # Infinity)

Thm_C9_PreviousAgreesWithDistance ==
    /\ \A st \in StepSeqs : \A j \in DOMAIN st :
          PreviousAgrees(st[j].distances, st[j].previous)
    /\ pc # "idle" => PreviousAgrees(distances, previous)
    /\ result.alg # "none" => PreviousAgrees(result.distances, result.previous)

\* a negative cycle through the source: the source itself has a predecessor
\* and a negative distance
Wit_C9_PreviousAgreesWithDistance ==
    /\ result.alg # "none" /\ SourcePresent
    /\ result.previous[sourceNode] # Null
    /\ result.distances[sourceNode] < 0
    /\ \E n \in Range(nodes) : result.previous[n] = Null

\* C10: the step sequence is append-only and every step is a frozen snapshot:
\* each transition of a running call leaves the steps pushed so far as a
\* prefix, field by field, of the sequence after it, up to the one returned.
IsPrefix(s, t) == Len(s) <= Len(t) /\ SubSeq(t, 1, Len(s)) = s

Thm_C10_StepsAppendOnly ==
    [][pc # "idle" => IsPrefix(steps, IF pc' = "idle" THEN result'.steps ELSE steps')]_vars

\* a run in which a node was relaxed twice, so that an earlier snapshot
\* differs from the returned maps in that node
Wit_C10_StepsAppendOnly ==
    /\ result.alg # "none"
    /\ \E a, b \in DOMAIN result.steps :
          /\ a < b
          /\ result.steps[a].type = "relax"
          /\ result.steps[b].type = "relax"
          /\ result.steps[a].updatedNodes = result.steps[b].updatedNodes

Kinds(st) == [j \in DOMAIN st |-> st[j].type]

\* a single node, no edges, that node as source
SingleNodeInput == Len(nodes) = 1 /\ edges = << >> /\ sourceNode = nodes[1]

\* C12 as stated: on a single node without edges and that node as source,
\* each algorithm returns exactly one initial step followed by one complete
\* step, distances {self: 0} and an empty tree.
Cex_C12_SingleNodeInitialComplete ==
    \A a \in Algs : (Returned(a) /\ SingleNodeInput) =>
        /\ Kinds(result.steps) = <<"initial", "complete">>
        /\ result.distances = [n \in {nodes[1]} |-> 0]
        /\ result.shortestPathTree = << >>

\* C12 (amended): on a single node without edges and that node as source,
\* bellmanFord returns exactly initial, complete; dijkstra returns exactly
\* initial, one select step naming the node with iteration 1, complete; both
\* return distances {self: 0}, no predecessor and an empty tree.
Thm_C12_SingleNodeSteps ==
    \A a \in Algs : (Returned(a) /\ SingleNodeInput) =>
        /\ a = "bellmanFord" => Kinds(result.steps) = <<"initial", "complete">>
        /\ a = "dijkstra" =>
              /\ Kinds(result.steps) = <<"initial", "select", "complete">>
              /\ result.steps[2].currentNode = nodes[1]
              /\ result.steps[2].iteration = 1
        /\ result.distances = [n \in {nodes[1]} |-> 0]
        /\ result.previous = [n \in {nodes[1]} |-> Null]
        /\ result.hasNegativeCycle = FALSE
        /\ result.shortestPathTree = << >>

\* both algorithms have returned on a single-node input
Wit_C12_SingleNodeSteps ==
    /\ SingleNodeInput
    /\ Returned("bellmanFord")
    /\ history["dijkstra"].alg = "dijkstra"
    /\ Len(history["dijkstra"].steps) = 3

\* C13: when the source is not in the node list both algorithms return with
\* every distance infinite, every predecessor none, hasNegativeCycle false
\* and an empty tree, negative weights included.
Thm_C13_AbsentSourceUnreachable ==
    \A a \in Algs : (Returned(a) /\ ~SourcePresent) =>
        /\ DOMAIN result.distances = Range(nodes)
        /\ DOMAIN result.previous = Range(nodes)
        /\ \A n \in Range(nodes) : result.distances[n] = Infinity
        /\ \A n \in Range(nodes) : result.previous[n] = Null
        /\ result.hasNegativeCycle = FALSE
        /\ result.shortestPathTree = << >>

\* both algorithms have returned on a graph with a negative cycle and an
\* absent source
Wit_C13_AbsentSourceUnreachable ==
    /\ ~SourcePresent
    /\ Returned("bellmanFord")
    /\ history["dijkstra"].alg = "dijkstra"
    /\ \E j, k \in DOMAIN edges :
          /\ edges[j].destination = edges[k].source
          /\ edges[k].destination = edges[j].source
          /\ edges[j].weight + edges[k].weight < 0

\* C14 as stated: when the source is not in the node list, the steps of
\* either algorithm are the initial step followed only by the complete step,
\* whatever the number of nodes.
Cex_C14_AbsentSourceNoSteps ==
    \A a \in Algs : (Returned(a) /\ ~SourcePresent) =>
        Kinds(result.steps) = <<"initial", "complete">>

\* the edges leaving u, in edge-list order
EdgesFrom(u) == SelectSeq(edges, LAMBDA e : e.source = u)

\* C15: on edges whose endpoints are nodes, buildAdjacencyList has exactly
\* one entry per node; the entry of u lists the (destination, weight) pairs of
\* the edges with source u in edge-list order, duplicates and self-loops
\* kept; a node without outgoing edge has the empty sequence.
Thm_C15_AdjacencyListContract ==
    pc \in {"d_loop", "d_relax"} =>
        /\ DOMAIN adjList = Range(nodes)
        /\ \A u \in Range(nodes) :
              LET out == EdgesFrom(u)
              IN  adjList[u] = [j \in 1..Len(out) |->
                                  [node |-> out[j].destination,
                                   weight |-> out[j].weight]]

\* a node with two different outgoing pairs, one of them a self-loop, beside
\* a node without outgoing edge
Wit_C15_AdjacencyListContract ==
    /\ pc = "d_loop"
    /\ \E u, v \in Range(nodes) :
          /\ Len(adjList[u]) = 2
          /\ adjList[u][1] # adjList[u][2]
          /\ \E j \in 1..2 : adjList[u][j].node = u
          /\ adjList[v] = << >>

\* C16 as stated: buildAdjacencyList raises no fault on an edge whose source
\* or destination is not in the node list, so the dijkstra call on such an
\* edge list returns a result.
Cex_C16_MalformedEdgesTolerated ==
    (pc = "idle" /\ calls = 1 /\ edges \in MalformedEdgeLists(nodes))
        => Returned("dijkstra")

\* a returned value with every field in place
FullyFormed(r) ==
    /\ DOMAIN r.distances = Range(nodes)
    /\ DOMAIN r.previous = Range(nodes)
    /\ r.hasNegativeCycle \in BOOLEAN
    /\ Len(r.steps) >= 2
    /\ r.steps[Len(r.steps)].type \in {"complete", "negative_cycle"}
    /\ Range(r.shortestPathTree) \subseteq Range(edges)

\* the nodes named by the select steps of st, and the pass indices of its
\* relax and update steps
SelectedNodes(st) == {st[j].currentNode : j \in {k \in DOMAIN st : st[k].type = "select"}}
PassIndices(st) ==
    {st[j].iteration : j \in {k \in DOMAIN st : st[k].type \in {"relax", "update"}}}

\* dijkstra: every selection marked a new node visited, so there are at most
\* |V| of them; bellmanFord: every pass that left a step has an index in
\* 1..|V|-1 and at most one detection scan reported
RunBounded ==
    /\ pc \in {"d_loop", "d_relax"} =>
          /\ Count(steps, "select") = Cardinality(visited)
          /\ SelectedNodes(steps) = visited
          /\ Cardinality(visited) <= Len(nodes)
    /\ Returned("dijkstra") =>
          /\ Count(result.steps, "select") = Cardinality(SelectedNodes(result.steps))
          /\ Count(result.steps, "select") <= Len(nodes)
    /\ \A st \in StepSeqs :
          (pc \in {"b_pass", "b_detect"} \/ Returned("bellmanFord")) =>
              /\ PassIndices(st) \subseteq 1..(Len(nodes) - 1)
              /\ Count(st, "negative_cycle") <= 1
              /\ Count(st, "update") <= 1

\* every call the caller planned has returned, each with a fully-formed result
AllReturned ==
    /\ pc = "idle"
    /\ calls = Len(plan)
    /\ \A a \in Algs :
          LET r == IF Returned(a) THEN result ELSE history[a]
          IN  r.alg = a /\ FullyFormed(r)

\* C17: every call of either algorithm terminates and returns a fully-formed
\* result, negative weights and negative cycles included; dijkstra performs
\* at most |V| selections, each marking a new node visited, and bellmanFord
\* at most |V|-1 relaxation passes followed by one detection scan.
Thm_C17_RunsTerminate ==
    /\ []RunBounded
    /\ <>AllReturned

\* bellmanFord has returned from a graph with a negative cycle after |V|-1
\* relaxing passes, and dijkstra had selected every node of the same graph
Wit_C17_RunsTerminate ==
    /\ Returned("bellmanFord")
    /\ result.hasNegativeCycle
    /\ Len(nodes) >= 2
    /\ PassIndices(result.steps) = 1..(Len(nodes) - 1)
    /\ Count(history["dijkstra"].steps, "select") = Len(nodes)
    /\ \E j \in DOMAIN edges : edges[j].weight < 0

\* the position of node n in the caller's node list
IndexOf(n) == CHOOSE k \in DOMAIN nodes : nodes[k] = n

\* the nodes not named by a select step before position j of st
UnvisitedBefore(st, j) == Range(nodes) \ SelectedNodes(SubSeq(st, 1, j - 1))

\* the step sequences of dijkstra that exist in a state
DijkstraStepSeqs ==
    (IF pc \in {"d_loop", "d_relax"} THEN {steps} ELSE {})
    \cup (IF Returned("dijkstra") THEN {result.steps} ELSE {})

\* C18: every select step of dijkstra names a node not selected before, whose
\* distance in the preceding snapshot is finite and minimal among the
\* unvisited nodes, and which is the first in node order among the unvisited
\* nodes at that minimum.
Thm_C18_SelectMinimalFirst ==
    \A st \in DijkstraStepSeqs : \A j \in DOMAIN st :
        st[j].type = "select" =>
            LET n == st[j].currentNode
                d == st[j - 1].distances
                unvisited == UnvisitedBefore(st, j)
            IN  /\ n \in unvisited
                /\ d[n] # Infinity
                /\ \A m \in unvisited : d[n] <= d[m]
                /\ \A m \in unvisited : d[m] = d[n] => IndexOf(n) <= IndexOf(m)

\* a returned run with a select step at which two unvisited nodes tied at
\* the finite minimum, and one at which an unvisited node was further away
Wit_C18_SelectMinimalFirst ==
    /\ Returned("dijkstra")
    /\ \E j \in DOMAIN result.steps :
          /\ result.steps[j].type = "select"
          /\ \E m \in UnvisitedBefore(result.steps, j) :
                /\ m # result.steps[j].currentNode
                /\ result.steps[j - 1].distances[m]
                     = result.steps[j - 1].distances[result.steps[j].currentNode]
    /\ \E j \in DOMAIN result.steps :
          /\ result.steps[j].type = "select"
          /\ \E m \in UnvisitedBefore(result.steps, j) :
                result.steps[j - 1].distances[m]
                    > result.steps[j - 1].distances[result.steps[j].currentNode]

\* the position of the last select step before position j of st, or 0
LastSelectBefore(st, j) ==
    LET sel == {k \in 1..(j - 1) : st[k].type = "select"}
    IN  IF sel = {} THEN 0 ELSE CHOOSE k \in sel : \A l \in sel : l <= k

\* C19: a dijkstra step sequence is initial, then groups of one select step
\* followed by its relax steps, then complete; it holds no update and no
\* negative_cycle step; a relax step carries the iteration of the select step
\* of its group and its edge starts at the node that step selected; the k-th
\* select step has iteration k.
Thm_C19_DijkstraStepShape ==
    Returned("dijkstra") =>
        LET st == result.steps
        IN  /\ Len(st) >= 2
            /\ st[1].type = "initial"
            /\ st[Len(st)].type = "complete"
            /\ \A j \in 2..(Len(st) - 1) : st[j].type \in {"select", "relax"}
            /\ \A j \in DOMAIN st :
                  st[j].type = "relax" =>
                      LET g == LastSelectBefore(st, j)
                      IN  /\ g # 0
                          /\ st[j].iteration = st[g].iteration
                          /\ st[j].currentEdge.source = st[g].currentNode
            /\ \A j \in DOMAIN st :
                  st[j].type = "select" =>
                      st[j].iteration = Count(SubSeq(st, 1, j), "select")

\* a returned run with a group of two relax steps and a later group without
\* relax step
Wit_C19_DijkstraStepShape ==
    /\ Returned("dijkstra")
    /\ \E j \in DOMAIN result.steps :
          /\ j + 3 <= Len(result.steps)
          /\ result.steps[j].type = "select"
          /\ result.steps[j + 1].type = "relax"
          /\ result.steps[j + 2].type = "relax"
          /\ result.steps[j + 3].type = "select"
    /\ \E j \in DOMAIN result.steps :
          /\ j + 1 <= Len(result.steps)
          /\ result.steps[j].type = "select"
          /\ result.steps[j].iteration > 1
          /\ result.steps[j + 1].type # "relax"

\* the step sequences of a run that exist in a state
RunStepSeqs ==
    (IF pc # "idle" THEN {steps} ELSE {})
    \cup (IF result.alg \in Algs THEN {result.steps} ELSE {})

\* C20: a relax step's snapshot differs from the snapshot of the step before
\* it in the distance of exactly one node, the destination of its edge, which
\* is the sole entry of updatedNodes, whose distance strictly decreased and
\* whose predecessor is the edge's source; the snapshot of a select, update,
\* complete or negative_cycle step equals the snapshot of the step before it.
Thm_C20_OnlyChangeObservable ==
    \A st \in RunStepSeqs : \A j \in 2..Len(st) :
        LET before == st[j - 1]
            e == st[j].currentEdge
        IN  IF st[j].type = "relax"
            THEN /\ st[j].updatedNodes = << e.destination >>
                 /\ {n \in Range(nodes) : st[j].distances[n] # before.distances[n]}
                      = {e.destination}
                 /\ st[j].distances[e.destination] < before.distances[e.destination]
                 /\ st[j].previous[e.destination] = e.source
                 /\ \A n \in Range(nodes) \ {e.destination} :
                       st[j].previous[n] = before.previous[n]
            ELSE /\ st[j].type \in {"select", "update", "complete", "negative_cycle"}
                 /\ st[j].distances = before.distances
                 /\ st[j].previous = before.previous

\* bellmanFord has returned after lowering a distance that was already
\* finite and after an update step; dijkstra had selected and relaxed
Wit_C20_OnlyChangeObservable ==
    /\ Returned("bellmanFord")
    /\ \E j \in 2..Len(result.steps) :
          /\ result.steps[j].type = "relax"
          /\ result.steps[j - 1].distances[result.steps[j].currentEdge.destination]
                # Infinity
    /\ Count(result.steps, "update") = 1
    /\ Count(history["dijkstra"].steps, "relax") >= 1
    /\ \E j \in DOMAIN edges :
          ~Improves(edges[j], result.steps[1].distances)

\* the pass indices of the relax steps of st
RelaxPasses(st) == {st[j].iteration : j \in {k \in DOMAIN st : st[k].type = "relax"}}

\* the input of the worked example: A->B 4, A->C 1, C->B 1, source A
ScenarioInput == nodes = ScenarioNodes /\ edges = ScenarioEdges /\ sourceNode = "A"

\* C21: bellmanFord stops relaxing after the first pass without relaxation:
\* the passes that relaxed are 1..k; an update step exists exactly when
\* k < |V|-1, there is at most one, it carries index k+1, no relax step
\* follows it and the complete step follows it immediately (so no
\* negative_cycle step); on the worked example two passes are attempted.
Thm_C21_UpdateStepShortCircuit ==
    Returned("bellmanFord") =>
        LET st == result.steps
            k == Cardinality(RelaxPasses(st))
            upd == {j \in DOMAIN st : st[j].type = "update"}
        IN  /\ RelaxPasses(st) = 1..k
            /\ k <= Len(nodes) - 1
            /\ Cardinality(upd) <= 1
            /\ (upd # {}) <=> (k < Len(nodes) - 1)
            /\ \A j \in upd :
                  /\ st[j].iteration = k + 1
                  /\ j = Len(st) - 1
                  /\ st[Len(st)].type = "complete"
                  /\ ~result.hasNegativeCycle
            /\ ScenarioInput =>
                  /\ RelaxPasses(st) = {1}
                  /\ \E j \in upd : st[j].iteration = 2

\* bellmanFord has returned on the worked example
Wit_C21_UpdateStepShortCircuit ==
    /\ Returned("bellmanFord")
    /\ ScenarioInput
    /\ Count(result.steps, "update") = 1
    /\ Count(result.steps, "relax") = 3

\* C22: the bellmanFord that stops after a pass without updates and the
\* bellmanFord that runs all |V|-1 passes return the same distances, the
\* same previous and the same hasNegativeCycle, negative cycles included.
Thm_C22_ShortCircuitSameResult ==
    (Returned("bellmanFordFull") /\ history["bellmanFord"].alg = "bellmanFord") =>
        /\ result.distances = history["bellmanFord"].distances
        /\ result.previous = history["bellmanFord"].previous
        /\ result.hasNegativeCycle = history["bellmanFord"].hasNegativeCycle

\* the short-circuit stopped after pass 1 while the other version ran a
\* second pass, on a graph with a negative edge out of reach of the source
Wit_C22_ShortCircuitSameResult ==
    /\ Returned("bellmanFordFull")
    /\ SourcePresent
    /\ Count(history["bellmanFord"].steps, "update") = 1
    /\ Count(result.steps, "update") = 2
    /\ \E j \in DOMAIN edges : edges[j].weight < 0

\* the positions in the edge list of the edges from s to t
EdgesBetween(s, t) ==
    {j \in DOMAIN edges : edges[j].source = s /\ edges[j].destination = t}

\* C23: when no negative cycle is reported, the returned tree lists, for the
\* nodes in node order whose final previous is not none, the first edge in
\* edge order from previous[node] to node: one edge per node with a
\* predecessor; on the worked example it is [(C,B,1), (A,C,1)].
Thm_C23_TreeFirstMatchingEdge ==
    \A a \in Algs : (Returned(a) /\ ~result.hasNegativeCycle) =>
        LET p == result.previous
            withPrevious == SelectSeq(nodes, LAMBDA n : p[n] # Null)
        IN  /\ Len(result.shortestPathTree) = Len(withPrevious)
            /\ \A k \in DOMAIN withPrevious :
                  LET n == withPrevious[k]
                  IN  /\ EdgesBetween(p[n], n) # {}
                      /\ result.shortestPathTree[k] = edges[Min(EdgesBetween(p[n], n))]
            /\ ScenarioInput =>
                  result.shortestPathTree =
                      << [source |-> "C", destination |-> "B", weight |-> 1],
                         [source |-> "A", destination |-> "C", weight |-> 1] >>

\* a returned tree holding the first of two parallel edges although the
\* second, lighter one produced the final distance
Wit_C23_TreeFirstMatchingEdge ==
    /\ Returned("bellmanFord")
    /\ ~result.hasNegativeCycle
    /\ Len(edges) = 2
    /\ edges[1].source = edges[2].source
    /\ edges[1].destination = edges[2].destination
    /\ edges[2].weight < edges[1].weight
    /\ result.shortestPathTree = << edges[1] >>
    /\ result.distances[edges[1].destination] = edges[2].weight

\* C24: in every dijkstra run, whatever the weights, the nodes named by
\* select steps are exactly the nodes a directed path from the source
\* reaches (the source included), each named once; the selection loop ends
\* with nodes left unvisited exactly when all of them are at distance
\* Infinity.
Thm_C24_SelectedAreReachable ==
    /\ Returned("dijkstra") =>
          /\ SelectedNodes(result.steps) = Reachable(sourceNode)
          /\ Count(result.steps, "select") = Cardinality(Reachable(sourceNode))
          /\ \A n \in Range(nodes) \ SelectedNodes(result.steps) :
                result.distances[n] = Infinity
    /\ (pc = "d_loop" /\ visited # Range(nodes)) =>
          ((ENABLED DijkstraComplete)
              <=> \A n \in Range(nodes) \ visited : distances[n] = Infinity)

\* a returned run on negative weights that selected some nodes and left
\* another, which has an outgoing edge, unvisited
Wit_C24_SelectedAreReachable ==
    /\ Returned("dijkstra")
    /\ ~NonNegativeWeights
    /\ Count(result.steps, "select") = 2
    /\ \E n \in Range(nodes) \ SelectedNodes(result.steps) :
          \E j \in DOMAIN edges : edges[j].source = n

\* no two edges share the same ordered (source, destination) pair
UniqueEdgePairs ==
    \A j, k \in DOMAIN edges :
        (edges[j].source = edges[k].source
            /\ edges[j].destination = edges[k].destination) => j = k

\* the runs whose final maps the claims call shortest paths: dijkstra on
\* non-negative weights, bellmanFord without reported negative cycle
ShortestPathRun ==
    \/ Returned("dijkstra") /\ NonNegativeWeights
    \/ Returned("bellmanFord") /\ ~result.hasNegativeCycle

RECURSIVE PreviousPath(_, _, _)
PreviousPath(p, n, fuel) ==
    IF n = sourceNode \/ fuel = 0 \/ p[n] = Null THEN << n >>
    ELSE << n >> \o PreviousPath(p, p[n], fuel - 1)

\* C26: the final previous map is a tree rooted at the source, for dijkstra
\* on non-negative weights and for bellmanFord without reported negative
\* cycle: from every node at finite distance, following previous reaches the
\* source in at most |V|-1 hops without meeting a node twice, and the
\* source's own previous is none.
Thm_C26_PreviousIsTree ==
    ShortestPathRun =>
        /\ SourcePresent => result.previous[sourceNode] = Null
        /\ \A n \in Range(nodes) :
              result.distances[n] # Infinity =>
                  LET path == PreviousPath(result.previous, n, Len(nodes))
                  IN  /\ Last(path) = sourceNode
                      /\ Len(path) - 1 <= Len(nodes) - 1
                      /\ Cardinality(Range(path)) = Len(path)

\* a bellmanFord result in which a node is two hops from the source along
\* previous, on a graph with a negative weight and an edge into the source
Wit_C26_PreviousIsTree ==
    /\ Returned("bellmanFord")
    /\ ~result.hasNegativeCycle
    /\ ~NonNegativeWeights
    /\ \E n \in Range(nodes) :
          /\ result.distances[n] # Infinity
          /\ Len(PreviousPath(result.previous, n, Len(nodes))) = 3

\* steps[currentStep] is a defined step
CursorInRange ==
    Len(stepsState) > 0 => (0 <= currentStep /\ currentStep <= Len(stepsState) - 1)

\* what the handlers do to the cursor at its ends
CursorHandlers ==
    /\ (HandleNextStep /\ currentStep = Len(stepsState) - 1)
          => currentStep' = currentStep
    /\ (HandlePreviousStep /\ currentStep = 0) => currentStep' = currentStep
    /\ (HandleRunReturned \/ HandleReset \/ HandleClear) => currentStep' = 0

\* C27: after any sequence of run, next-step, previous-step, tick, pause,
\* resume, mode switch, reset and clear, 0 <= currentStep <= steps.length - 1
\* whenever steps is non-empty; next-step at the last step and previous-step
\* at step 0 leave the cursor where it is; run, reset and clear set it to 0.
Thm_C27_CursorInRange ==
    /\ []CursorInRange
    /\ [][CursorHandlers]_vars

\* manual mode, paused, the cursor on the last of more than two steps
Wit_C27_CursorInRange ==
    /\ isRunning /\ manualMode /\ isPaused
    /\ Len(stepsState) > 2
    /\ currentStep = Len(stepsState) - 1

\* what a tick does, and what can move the cursor in auto mode
TickMovesForward ==
    /\ Tick => (isRunning /\ ~isPaused /\ ~manualMode)
    /\ (Tick /\ currentStep < Len(stepsState) - 1)
          => (currentStep' = currentStep + 1 /\ isRunning')
    /\ (Tick /\ currentStep = Len(stepsState) - 1)
          => (currentStep' = currentStep /\ ~isRunning')
    /\ (isRunning /\ ~isPaused /\ ~manualMode /\ currentStep' # currentStep)
          => \/ currentStep' = currentStep + 1 /\ stepsState' = stepsState
             \/ currentStep' = 0 /\ ~isRunning'

\* C28: in auto mode ticks move the cursor forward by exactly one step, the
\* cursor reaches the last step unless the run is paused, stopped, cleared
\* or switched to manual, the tick at the last step sets isRunning to false
\* and leaves the cursor there; no tick happens while paused or in manual
\* mode.
Thm_C28_AutoPlayback ==
    /\ [][TickMovesForward]_vars
    /\ TimerActive ~>
          (currentStep = Len(stepsState) - 1 \/ ~isRunning \/ isPaused \/ manualMode)
    /\ (TimerActive /\ currentStep = Len(stepsState) - 1) ~>
          (~isRunning \/ isPaused \/ manualMode)

\* an automatic playback of more than two steps has run to its end
Wit_C28_AutoPlayback ==
    /\ ~isRunning /\ ~isPaused /\ ~manualMode
    /\ Len(stepsState) > 2
    /\ currentStep = Len(stepsState) - 1

\* the graph is well-formed: node ids unique and non-empty, both endpoints of
\* every edge in the node list, no two edges with the same ordered pair
WellFormedGraph ==
    /\ \A j, k \in DOMAIN nodes : nodes[j] = nodes[k] => j = k
    /\ \A j \in DOMAIN nodes : nodes[j] # ""
    /\ \A j \in DOMAIN edges :
          edges[j].source \in Range(nodes) /\ edges[j].destination \in Range(nodes)
    /\ UniqueEdgePairs

\* removing a node leaves no edge incident to it and keeps the other edges
RemoveNodeRemovesEdges ==
    \A n \in PageIds :
        HandleRemoveNode(n) =>
            /\ n \notin Range(nodes')
            /\ \A j \in DOMAIN edges' :
                  edges'[j].source # n /\ edges'[j].destination # n
            /\ \A j \in DOMAIN edges :
                  (edges[j].source # n /\ edges[j].destination # n)
                      => edges[j] \in Range(edges')

\* C29: after any sequence of add-node, add-edge, remove-node, remove-edge
\* and clear, the graph of the page, which is the one handed to the engine,
\* is well-formed: node ids unique and non-empty, edge endpoints in the node
\* list, no two edges with the same ordered (source, destination) pair; and
\* removing a node removes every edge incident to it.
Thm_C29_GraphWellFormed ==
    /\ []WellFormedGraph
    /\ [][RemoveNodeRemovesEdges]_vars

\* the displayed run relaxed the edge A->B, and since then node A has been
\* removed: only B and its self-loop are left
Wit_C29_GraphWellFormed ==
    /\ isRunning
    /\ \E j \in DOMAIN stepsState :
          /\ stepsState[j].type = "relax"
          /\ stepsState[j].currentEdge.source = "A"
          /\ stepsState[j].currentEdge.destination = "B"
    /\ nodes = << "B" >>
    /\ edges = << [source |-> "B", destination |-> "B", weight |-> 1] >>

\* C30 as stated: whenever handleRun calls the engine, the selected source
\* is a member of the node list it passes, after any sequence of node
\* additions, node removals, source selections and clears.
Cex_C30_RunSourceInNodes == [][HandleRun => sourceNode \in Range(nodes)]_vars

====
